---- MODULE Spec2Model ----
(***************************************************************************)
(* A model of bgp-audit (src/main.py): the file cache, the fetch           *)
(* functions built on it, the AS-path analysis and the routing-flow tree.  *)
(*                                                                         *)
(* The specifications share the variables:                                 *)
(*   SpecPaths   _analyze_zenlayer_paths, one observed path per step       *)
(*   Spec        get_routing_flow, from the path analysis to the tree      *)
(*   SpecVerify  the same with the exchanges of the verification tiers     *)
(*   SpecRuns    the tree built twice over the same upstream data          *)
(*   SpecCache   _read_cache, _write_cache, clear_file_cache on one file   *)
(*   SpecFetch   fetch_peeringdb, _fetch_prefixes_for_asn, _fetch_as_path  *)
(*   SpecRepeat  repeated fetches while time passes                        *)
(*   SpecQuery   the registry queries by id and their chunks               *)
(*   SpecParse   the parse of the looking-glass answer                     *)
(*   SpecRace    two requests writing one cache file, and a reader         *)
(* Each leaves the other parts' variables at their initial values.         *)
(***************************************************************************)
EXTENDS Integers, Sequences, FiniteSets, TLC

\* ------------------------------------------------------------------ bounds
\* Local ASNs are 1..NumLocal (DEFAULT_CONFIG["ASNS"] holds two), the other
\* ASNs follow them.
NumLocal == 2
NumNonLocal == 2
MaxPathLen == 4

LocalASNs == 1..NumLocal
NonLocalASNs == (NumLocal + 1)..(NumLocal + NumNonLocal)
ASNs == LocalASNs \cup NonLocalASNs

\* An observed AS path: a non-empty list of ASNs (an empty as_path string is
\* skipped by _fetch_as_path, main.py line 126).
Paths == UNION {[1..n -> ASNs] : n \in 1..MaxPathLen}

VARIABLES
    \* _analyze_zenlayer_paths
    direct_peers,       \* set of ASNs
    peer_downstreams,   \* function: peer ASN -> set of ASNs
    path,               \* the loop variable `path` (<<>> outside an iteration)
    first_hop,          \* `first_hop` as this iteration assigned it last (0: not assigned)
    apc,                \* "scan": at `for path in paths`; "path": a path taken;
                        \* "scanned": its elements scanned; "ret": returned
    \* get_routing_flow
    rpc,                \* position in the handler
    all_nets,           \* ASNs of the net records fetched for the facilities (0: no asn)
    net_name,           \* the registry's display names, as sort keys: ASN -> rank
    facility_nets,      \* keys of the dict facility_nets
    assigned_asns,
    direct_peer_nodes,  \* the dict's values in insertion order
    todo,               \* what is left of the sorted list a loop iterates
    unresolved_asns,
    tree,               \* the returned value (<<>> before the return)
    local_ix_ids,       \* the exchanges at the location's facilities
    zl_ix_ids,          \* the exchanges the local networks are members of
    ix_names,           \* the dict ix_names
    peer_lookups,       \* external peer -> what its lookups gave (peer_nets, peer_ix_set)
    \* the file cache and the fetchers
    cache,              \* key -> content of the cache file
    cache_dir,          \* whether the directory CACHE_DIR exists
    now,                \* time.time(), in seconds
    ticks,              \* how often time has passed
    call,               \* the last call: what it saw, how it ended
    \* registry queries by id: initialize_footprint, get_routing_flow up to
    \* all_nets, _get_discovery_data
    facilities,         \* zenlayer_state["facilities"]: city -> number of facilities
    networks,           \* len(zenlayer_state["networks"])
    unique_cities,      \* zenlayer_state["unique_cities"], as a set
    unique_metros,      \* zenlayer_state["unique_metros"], as a set
    fac_ids,            \* len(fac_ids) of the last refresh (0 when it did not get there)
    qpc,                \* "idle"; "chunks": in the chunk loop; "done"
    qop,                \* the operation running or run last
    qtype,              \* its location_type
    qloc,               \* its location
    targets,            \* len(target_fac_ids)
    net_ids,            \* len(net_ids)
    qi,                 \* the chunk loop's i
    sent,               \* the requests with an "in" filter, in order
    got,                \* the chunks whose records are in all_nets
    qret,               \* what the operation returned ("none": nothing yet)
    \* the looking-glass answer and its parse in _fetch_as_path
    lg_peers,           \* the as_path strings of the answer's peers, in order
    lg_paths,           \* the list `paths`
    ppc,                \* "answer": none yet; "got": answer taken; "parsed": lg_paths is its parse
    \* two builds of the tree over the same upstream data
    run,                \* 1: the first build; 2: the second
    delivered,          \* the paths of the looking-glass data, as the first build got them
    queue,              \* the second build: the same paths in its order, those not yet taken
    prev,               \* the second build: the data and the tree of the first (<<>> before)
    \* two requests writing one cache file, and a reader
    race_file,          \* the file: whether it exists, and its content in blocks
    wpc,                \* writer -> "idle", "fetched", "open", "closed"
    wdoc,               \* writer -> the length of its JSON text in blocks (0: none yet)
    woff,               \* writer -> the blocks its file object has written
    race_read           \* what the last _read_cache of the file returned

pathVars == <<direct_peers, peer_downstreams, path, first_hop, apc>>
flowVars == <<rpc, all_nets, net_name, facility_nets, assigned_asns,
              direct_peer_nodes, todo, unresolved_asns, tree,
              local_ix_ids, zl_ix_ids, ix_names, peer_lookups>>
cacheVars == <<cache, cache_dir, now, ticks, call>>
footprint == <<facilities, networks, unique_cities, unique_metros, fac_ids>>
queryVars == <<footprint, qpc, qop, qtype, qloc, targets, net_ids, qi, sent, got, qret>>
parseVars == <<lg_peers, lg_paths, ppc>>
runVars == <<run, delivered, queue, prev>>
raceVars == <<race_file, wpc, wdoc, woff, race_read>>
vars == <<pathVars, flowVars, cacheVars, queryVars, parseVars, runVars, raceVars>>

\* ------------------------------------------------------- path analysis
\* peer_downstreams[k], or the empty set for a missing key (dict.get(k, set()))
DownOf(pd, k) == IF k \in DOMAIN pd THEN pd[k] ELSE {}

\* The upstream ASNs recorded only on the path that shows the peer first.
RecordHopFirstPath(p, i, dp, pd) ==
    LET hop == p[i - 1]
        ups == {p[j] : j \in {j \in 1..(i - 2) : p[j] \notin LocalASNs}}
    IN  <<dp \cup {hop},
          [k \in DOMAIN pd \cup {hop} |->
              IF k = hop /\ k \notin DOMAIN pd THEN ups
              ELSE pd[k]]>>

\* range(0, i) in place of range(0, i - 1): the first hop itself is counted
\* among its own upstream ASNs.
RecordHopThroughHop(p, i, dp, pd) ==
    LET hop == p[i - 1]
        ups == {p[j] : j \in {j \in 1..(i - 1) : p[j] \notin LocalASNs}}
    IN  <<dp \cup {hop},
          [k \in DOMAIN pd \cup {hop} |->
              IF k = hop THEN DownOf(pd, k) \cup ups ELSE pd[k]]>>

\* lines 216-222: direct_peers.add(first_hop); the key created when missing;
\* every non-local path[j], j in range(0, i - 1), added to the peer's set.
\* Indices are 1-based here: Python's i is i - 1, range(0, i - 1) is 1..i-2.
RecordHop(p, i, dp, pd) ==
    LET hop == p[i - 1]
        ups == {p[j] : j \in {j \in 1..(i - 2) : p[j] \notin LocalASNs}}
    IN  <<dp \cup {hop},
          [k \in DOMAIN pd \cup {hop} |->
              IF k = hop THEN DownOf(pd, k) \cup ups ELSE pd[k]]>>

\* The loop with line 215's `continue` read as "skip this path".
ScanPathSkip(p, i, dp, pd) ==
    LET first == {j \in 2..Len(p) : p[j] \in LocalASNs}
        k == CHOOSE j \in first : \A m \in first : j <= m
    IN  IF first = {} THEN [dp |-> dp, pd |-> pd, first_hop |-> 0]
        ELSE IF p[k - 1] \in LocalASNs
             THEN [dp |-> dp, pd |-> pd, first_hop |-> p[k - 1]]
             ELSE [dp |-> RecordHop(p, k, dp, pd)[1], pd |-> RecordHop(p, k, dp, pd)[2],
                   first_hop |-> p[k - 1]]

\* lines 211-223: the loop `for i, path_asn in enumerate(path)` from index i on.
\* A local first_hop is `continue` (the next i is tried); a recorded hop is
\* `break`. fh carries first_hop.
RECURSIVE ScanFrom(_, _, _, _, _)
ScanFrom(p, i, dp, pd, fh) ==
    IF i > Len(p) THEN [dp |-> dp, pd |-> pd, first_hop |-> fh]
    ELSE IF p[i] \in LocalASNs /\ i > 1
         THEN IF p[i - 1] \in LocalASNs
              THEN ScanFrom(p, i + 1, dp, pd, p[i - 1])
              ELSE [dp |-> RecordHop(p, i, dp, pd)[1], pd |-> RecordHop(p, i, dp, pd)[2],
                    first_hop |-> p[i - 1]]
         ELSE ScanFrom(p, i + 1, dp, pd, fh)

ScanPath(p, i, dp, pd) == ScanFrom(p, i, dp, pd, 0)

\* lines 203-205
PathInit ==
    /\ direct_peers = {}
    /\ peer_downstreams = <<>>
    /\ path = <<>>
    /\ first_hop = 0
    /\ apc = "scan"

\* line 209: `for path in paths` takes p, the next path of the data.
TakePath(p) ==
    /\ path' = p
    /\ apc' = "path"
    /\ UNCHANGED <<direct_peers, peer_downstreams, first_hop>>
    /\ UNCHANGED <<flowVars, cacheVars, queryVars, parseVars, raceVars>>

\* line 209 with any path as the next of the looking-glass data.
NextPath ==
    /\ apc = "scan"
    /\ \E p \in Paths : TakePath(p)
    /\ UNCHANGED runVars

\* lines 211-223: the loop over the path's elements.
AnalyzePath ==
    LET r == ScanPath(path, 1, direct_peers, peer_downstreams)
    IN  /\ apc = "path"
        /\ direct_peers' = r.dp
        /\ peer_downstreams' = r.pd
        /\ first_hop' = r.first_hop
        /\ apc' = "scanned"
        /\ UNCHANGED path
        /\ UNCHANGED <<flowVars, cacheVars, queryVars, parseVars, runVars, raceVars>>

\* back at line 209 for the next path
EndPath ==
    /\ apc = "scanned"
    /\ path' = <<>>
    /\ first_hop' = 0
    /\ apc' = "scan"
    /\ UNCHANGED <<direct_peers, peer_downstreams>>
    /\ UNCHANGED <<flowVars, cacheVars, queryVars, parseVars, runVars, raceVars>>

\* line 230: return direct_peers, peer_downstreams
AnalyzeReturn ==
    /\ apc = "scan"
    /\ apc' = "ret"
    /\ UNCHANGED <<direct_peers, peer_downstreams, path, first_hop>>
    /\ UNCHANGED <<flowVars, cacheVars, queryVars, parseVars, runVars, raceVars>>

\* lines 203-205: a new call starts from empty results.
AnalyzeCall ==
    /\ apc = "ret"
    /\ direct_peers' = {}
    /\ peer_downstreams' = <<>>
    /\ path' = <<>>
    /\ first_hop' = 0
    /\ apc' = "scan"
    /\ UNCHANGED <<flowVars, cacheVars, queryVars, parseVars, runVars, raceVars>>

\* ------------------------------------------------------ get_routing_flow
\* Two namings of the networks: names in the order of the ASNs, and in the
\* opposite order.
MaxASN == NumLocal + NumNonLocal
Namings == {[a \in 1..MaxASN |-> a], [a \in 1..MaxASN |-> MaxASN + 1 - a]}

\* sorted(S) for a set of integers
RECURSIVE SortedSeq(_)
SortedSeq(S) ==
    IF S = {} THEN <<>>
    ELSE LET m == CHOOSE x \in S : \A y \in S : x <= y
         IN  <<m>> \o SortedSeq(S \ {m})

\* list.sort(key=lambda x: x["name"]) on a list of ASNs: stable, by name.
RECURSIVE SortByName(_, _)
SortByName(s, nm) ==
    IF s = <<>> THEN <<>>
    ELSE LET rest == SortByName(SubSeq(s, 1, Len(s) - 1), nm)
             x == s[Len(s)]
             k == Cardinality({i \in 1..Len(rest) : nm[rest[i]] <= nm[x]})
         IN  SubSeq(rest, 1, k) \o <<x>> \o SubSeq(rest, k + 1, Len(rest))

\* sorted(direct_peer_nodes.values(), key=lambda x: x["name"]) on node records
RECURSIVE SortNodesByName(_, _)
SortNodesByName(s, nm) ==
    IF s = <<>> THEN <<>>
    ELSE LET rest == SortNodesByName(SubSeq(s, 1, Len(s) - 1), nm)
             x == s[Len(s)]
             k == Cardinality({i \in 1..Len(rest) : rest[i].name <= x.name})
         IN  SubSeq(rest, 1, k) \o <<x>> \o SubSeq(rest, k + 1, Len(rest))

Range(s) == {s[i] : i \in 1..Len(s)}

\* The downstream children of a peer, with neither the restriction to the
\* facility's networks nor the `if d_net` test.
ChildASNsAnyDownstream(hop, pd, fac, assigned) ==
    {d \in DownOf(pd, hop) : d \notin assigned /\ d # hop}

\* No Downstream child is made: the `if d_net` test fails for every candidate.
ChildASNsNone(hop, pd, fac, assigned) == {}

\* lines 628-645 and 684-700: the ASNs that become Downstream children of hop.
\* The loop adds each to assigned_asns as it goes; its candidates are distinct,
\* so the test `d_asn in assigned_asns` reads the set as it was before the loop.
\* d_net is found for every candidate (each is a key of facility_nets).
ChildASNs(hop, pd, fac, assigned) ==
    {d \in DownOf(pd, hop) \cap fac : d \notin assigned /\ d # hop}

\* The exchanges of the registry, and the name each has there.
IXs == {1, 2}
IxRegistryName(ix) == IF ix = 1 THEN "Equinix Ashburn" ELSE "DE-CIX"

\* line 594: the exchanges at the location's facilities that the local
\* networks are members of.
ZenlayerLocalIxes(local, zl) == local \cap zl

\* line 681: ix_names.get(ix, f"IX-{ix}")
IxLabel(names, ix) ==
    IF ix \in DOMAIN names THEN names[ix] ELSE IF ix = 1 THEN "IX-1" ELSE "IX-2"

\* line 702: the sort key of the name f"AS{hop_asn}" of a peer the registry
\* gave no record for; such names follow the registry's names here.
FallbackName(hop_asn) == NumLocal + NumNonLocal + hop_asn

\* The exchange check passed for every peer the registry knows.
SharedIxesAnyPeer(found, ixs, zli) == IF found THEN zli ELSE {}

\* lines 672-678: common, the exchanges the peer shares with the local
\* networks at the location; the peer's memberships are fetched only for a
\* peer the registry knows and when zenlayer_local_ixes is not empty.
SharedIxes(found, ixs, zli) == IF found /\ zli # {} THEN ixs \cap zli ELSE {}

\* lines 569-573: the keys of facility_nets (`if asn and asn not in local_set`).
FacilityNets(nets) == {a \in nets : a # 0 /\ a \notin LocalASNs}

\* unresolved_asns.discard(t_asn) run for every t_asn, claimed or not.
StillUnresolvedDiscardAll(unres, claimed) == {}

\* lines 730-743: what is left of unresolved_asns after the nesting pass.
StillUnresolved(unres, claimed) == unres \ claimed

FlowInit ==
    /\ rpc = "idle"
    /\ all_nets = {}
    /\ net_name = <<>>
    /\ facility_nets = {}
    /\ assigned_asns = {}
    /\ direct_peer_nodes = <<>>
    /\ todo = <<>>
    /\ unresolved_asns = {}
    /\ tree = <<>>
    /\ local_ix_ids = {}
    /\ zl_ix_ids = {}
    /\ ix_names = <<>>
    /\ peer_lookups = <<>>

\* lines 556-601, 606-610, 621-622. The registry answers with the net records
\* of the facilities (nets, named by nm), the exchanges at the facilities
\* (local), those of the local networks (zl) and, when the two meet, the
\* records of the common ones or nothing (named). The call of line 606 has returned
\* direct_peers and peer_downstreams: the analysis reads nothing of the request,
\* so its run is taken before the handler's first step. The net records come
\* from net_sets, the exchanges from ix_sets and the names from namings.
RF_NetsFrom(net_sets, ix_sets, namings) ==
    /\ rpc = "idle"
    /\ apc = "ret"
    /\ \E nets \in net_sets, nm \in namings :
        /\ all_nets' = nets
        /\ net_name' = nm
        /\ facility_nets' = FacilityNets(nets)
        /\ todo' = SortedSeq(direct_peers \cap FacilityNets(nets))
    /\ \E local \in ix_sets, zl \in ix_sets :
        \E named \in IF ZenlayerLocalIxes(local, zl) = {} THEN {FALSE} ELSE BOOLEAN :
            /\ local_ix_ids' = local
            /\ zl_ix_ids' = zl
            /\ ix_names' = IF named
                           THEN [ix \in ZenlayerLocalIxes(local, zl) |-> IxRegistryName(ix)]
                           ELSE <<>>
    /\ peer_lookups' = <<>>
    /\ assigned_asns' = LocalASNs
    /\ direct_peer_nodes' = <<>>
    /\ rpc' = "direct"
    /\ UNCHANGED <<unresolved_asns, tree>>
    /\ UNCHANGED <<pathVars, cacheVars, queryVars, parseVars, runVars, raceVars>>

\* A request for a location whose facilities host no exchange.
RF_Nets == RF_NetsFrom(SUBSET (0..MaxASN), {{}}, Namings)

\* A request for a location with no exchange, one or both, the local
\* networks at none, one or both; its facilities hold networks other than the
\* local ones, named in the order of their ASNs.
RF_NetsIx == RF_NetsFrom(SUBSET NonLocalASNs, {{}, {1}, IXs}, {[a \in 1..MaxASN |-> a]})

\* lines 624-661: one iteration of `for hop_asn in sorted(facility_direct)`.
RF_FacilityPeer ==
    /\ rpc = "direct"
    /\ todo # <<>>
    /\ LET hop_asn == Head(todo)
           kids == ChildASNs(hop_asn, peer_downstreams, facility_nets, assigned_asns)
       IN  /\ direct_peer_nodes' = Append(direct_peer_nodes,
                   [asn |-> hop_asn,
                    name |-> net_name[hop_asn],
                    verified |-> TRUE,
                    verification |-> "PeeringDB Facility",
                    children |-> SortByName(SortedSeq(kids), net_name),
                    transit_children |-> <<>>])
           /\ assigned_asns' = assigned_asns \cup kids \cup {hop_asn}
    /\ todo' = Tail(todo)
    /\ UNCHANGED <<rpc, all_nets, net_name, facility_nets, unresolved_asns, tree>>
    /\ UNCHANGED <<local_ix_ids, zl_ix_ids, ix_names, peer_lookups>>
    /\ UNCHANGED <<pathVars, cacheVars, queryVars, parseVars, runVars, raceVars>>

\* The second loop left out: no node for a peer that is not co-located.
RF_ExternalStartNone ==
    /\ rpc = "direct"
    /\ todo = <<>>
    /\ todo' = <<>>
    /\ rpc' = "external"
    /\ UNCHANGED <<all_nets, net_name, facility_nets, assigned_asns,
                   direct_peer_nodes, unresolved_asns, tree>>
    /\ UNCHANGED <<local_ix_ids, zl_ix_ids, ix_names, peer_lookups>>
    /\ UNCHANGED <<pathVars, cacheVars, queryVars, parseVars, runVars, raceVars>>

\* line 665: external_direct, once the first loop is over.
RF_ExternalStart ==
    /\ rpc = "direct"
    /\ todo = <<>>
    /\ todo' = SortedSeq((direct_peers \ facility_nets) \ LocalASNs)
    /\ rpc' = "external"
    /\ UNCHANGED <<all_nets, net_name, facility_nets, assigned_asns,
                   direct_peer_nodes, unresolved_asns, tree>>
    /\ UNCHANGED <<local_ix_ids, zl_ix_ids, ix_names, peer_lookups>>
    /\ UNCHANGED <<pathVars, cacheVars, queryVars, parseVars, runVars, raceVars>>

\* lines 666-718: one iteration of `for hop_asn in sorted(external_direct)`.
\* net?asn= gives a record of the peer or nothing (unknown, or a caught
\* failure), netixlan?net_id= gives its exchanges ixs (none on a caught
\* failure); the registry's name of the peer is net_name[hop_asn].
RF_ExternalPeer ==
    /\ rpc = "external"
    /\ todo # <<>>
    /\ \E found \in BOOLEAN :
       \E ixs \in IF found /\ ZenlayerLocalIxes(local_ix_ids, zl_ix_ids) # {}
                  THEN SUBSET IXs ELSE {{}} :
        LET hop_asn == Head(todo)
            common == SharedIxes(found, ixs, ZenlayerLocalIxes(local_ix_ids, zl_ix_ids))
            kids == ChildASNs(hop_asn, peer_downstreams, facility_nets, assigned_asns)
        IN  /\ direct_peer_nodes' = Append(direct_peer_nodes,
                    [asn |-> hop_asn,
                     name |-> IF found THEN net_name[hop_asn] ELSE FallbackName(hop_asn),
                     verified |-> common # {},
                     verification |-> IF common # {} THEN "Shared IX" ELSE "External 1-Hop",
                     shared_ix |-> {IxLabel(ix_names, ix) : ix \in common},
                     children |-> SortByName(SortedSeq(kids), net_name),
                     transit_children |-> <<>>])
            /\ assigned_asns' = assigned_asns \cup kids \cup {hop_asn}
            /\ peer_lookups' = [a \in DOMAIN peer_lookups \cup {hop_asn} |->
                                 IF a = hop_asn THEN [found |-> found, ixs |-> ixs]
                                 ELSE peer_lookups[a]]
    /\ todo' = Tail(todo)
    /\ UNCHANGED <<rpc, all_nets, net_name, facility_nets, unresolved_asns, tree>>
    /\ UNCHANGED <<local_ix_ids, zl_ix_ids, ix_names>>
    /\ UNCHANGED <<pathVars, cacheVars, queryVars, parseVars, runVars, raceVars>>

\* lines 672, 675 and 784-786: a lookup raises (what fetch_peeringdb does not
\* catch); the handler answers 500 and returns no tree.
RF_LookupRaises ==
    /\ rpc = "external"
    /\ todo # <<>>
    /\ rpc' = "raised"
    /\ UNCHANGED <<all_nets, net_name, facility_nets, assigned_asns, direct_peer_nodes,
                   todo, unresolved_asns, tree>>
    /\ UNCHANGED <<local_ix_ids, zl_ix_ids, ix_names, peer_lookups>>
    /\ UNCHANGED <<pathVars, cacheVars, queryVars, parseVars, runVars, raceVars>>

NodeASNs(nodes) == {nodes[i].asn : i \in 1..Len(nodes)}

\* line 732: the peers that can claim t_asn.
Claimers(t_asn, pd, nodes) ==
    {k \in DOMAIN pd : t_asn \in pd[k] /\ k \in NodeASNs(nodes)}

\* lines 725-747: unresolved_asns, then the nesting pass and the sort of every
\* node's transit_children. A claimable ASN goes to the first claiming peer in
\* the dict's iteration order; that order is the order in which the paths
\* first showed the peers, so any claiming peer may be the one (claim).
RF_Transit ==
    /\ rpc = "external"
    /\ todo = <<>>
    /\ LET unres == {a \in facility_nets : a \notin assigned_asns}
           claimable == {t \in unres : Claimers(t, peer_downstreams, direct_peer_nodes) # {}}
       IN  \E claim \in [claimable -> NodeASNs(direct_peer_nodes)] :
             /\ \A t \in claimable :
                    claim[t] \in Claimers(t, peer_downstreams, direct_peer_nodes)
             /\ direct_peer_nodes' =
                    [i \in 1..Len(direct_peer_nodes) |->
                        [direct_peer_nodes[i] EXCEPT !.transit_children =
                            SortByName(
                                SortedSeq({t \in claimable :
                                              claim[t] = direct_peer_nodes[i].asn}),
                                net_name)]]
             /\ assigned_asns' = assigned_asns \cup claimable
             /\ unresolved_asns' = StillUnresolved(unres, claimable)
    /\ rpc' = "unresolved"
    /\ UNCHANGED <<all_nets, net_name, facility_nets, todo, tree>>
    /\ UNCHANGED <<local_ix_ids, zl_ix_ids, ix_names, peer_lookups>>
    /\ UNCHANGED <<pathVars, cacheVars, queryVars, parseVars, runVars, raceVars>>

\* line 768: sum(len(p["transit_children"]) for p in direct_list)
RECURSIVE TransitNested(_)
TransitNested(nodes) ==
    IF nodes = <<>> THEN 0
    ELSE Len(Head(nodes).transit_children) + TransitNested(Tail(nodes))

\* lines 752-782: the Unresolved group, the sorted peers and the returned tree.
RF_Assemble ==
    /\ rpc = "unresolved"
    /\ LET direct_list == SortNodesByName(direct_peer_nodes, net_name)
           unresolved_children == SortedSeq(unresolved_asns)
       IN  tree' = [children |-> direct_list,
                    unresolved |-> unresolved_children,
                    direct_peer_count |-> Len(direct_list),
                    transit_nested_count |-> TransitNested(direct_list),
                    unresolved_count |-> Len(unresolved_children)]
    /\ rpc' = "done"
    /\ UNCHANGED <<all_nets, net_name, facility_nets, assigned_asns,
                   direct_peer_nodes, todo, unresolved_asns>>
    /\ UNCHANGED <<local_ix_ids, zl_ix_ids, ix_names, peer_lookups>>
    /\ UNCHANGED <<pathVars, cacheVars, queryVars, parseVars, runVars, raceVars>>

\* ------------------------------------------------------- the build run twice
\* The looking-glass data of the two builds: a path through a peer, one
\* through the other peer with the first behind it, and a peer's own path.
RunPaths == {<<4, 3, 1>>, <<3, 4, 1>>, <<3, 1>>}

\* Every network under one name.
TiedNames == [a \in 1..MaxASN |-> 1]

\* The orders in which a list can be delivered.
Orders(s) ==
    {q \in [1..Len(s) -> Range(s)] : \A i, j \in 1..Len(s) : q[i] = q[j] => i = j}

RunInit ==
    /\ run = 1
    /\ delivered = <<>>
    /\ queue = <<>>
    /\ prev = <<>>

\* line 209 in the first build: the data has one more path.
RunNextPath ==
    /\ run = 1
    /\ apc = "scan"
    /\ \E p \in RunPaths \ Range(delivered) :
        /\ TakePath(p)
        /\ delivered' = Append(delivered, p)
    /\ UNCHANGED <<run, queue, prev>>

\* line 209 in the second build: the next path of the same data.
RerunNextPath ==
    /\ run = 2
    /\ apc = "scan"
    /\ queue # <<>>
    /\ TakePath(Head(queue))
    /\ queue' = Tail(queue)
    /\ UNCHANGED <<run, delivered, prev>>

\* line 230; the second build returns when it has taken every path.
RunReturn ==
    /\ run = 2 => queue = <<>>
    /\ AnalyzeReturn

\* lines 556-622: the first build gets any records, the second the same.
RunNets ==
    IF run = 1 THEN RF_NetsFrom(SUBSET (0..MaxASN), {{}}, Namings \cup {TiedNames})
    ELSE RF_NetsFrom({prev.all_nets}, {{}}, {prev.net_name})

\* lines 521-554 and 203-205: the handler is called again for the location;
\* the upstream data is the same and its paths come in any order.
RunAgain ==
    /\ run = 1
    /\ rpc = "done"
    /\ run' = 2
    /\ \E q \in Orders(delivered) :
        /\ queue' = q
        /\ prev' = [all_nets |-> all_nets, net_name |-> net_name,
                    peer_lookups |-> peer_lookups, order |-> q, tree |-> tree]
    /\ direct_peers' = {}
    /\ peer_downstreams' = <<>>
    /\ path' = <<>>
    /\ first_hop' = 0
    /\ apc' = "scan"
    /\ rpc' = "idle"
    /\ all_nets' = {}
    /\ net_name' = <<>>
    /\ facility_nets' = {}
    /\ assigned_asns' = {}
    /\ direct_peer_nodes' = <<>>
    /\ todo' = <<>>
    /\ unresolved_asns' = {}
    /\ tree' = <<>>
    /\ peer_lookups' = <<>>
    /\ UNCHANGED <<local_ix_ids, zl_ix_ids, ix_names, delivered>>
    /\ UNCHANGED <<cacheVars, queryVars, parseVars, raceVars>>

\* ------------------------------------------------------------ file cache
CACHE_TTL == 86400
MaxTicks == 3

\* One cache file per kind of key: a PeeringDB query ("pdb"), the prefixes of
\* an ASN ("pfx"), the AS paths of that ASN ("aspath").
Keys == {"pdb", "pfx", "aspath"}

\* What a fetch stores and returns: a list of records, prefixes or as_path
\* strings.
DataOf(k) ==
    CASE k = "pdb" -> {<<>>, <<"net">>}
      [] k = "pfx" -> {<<>>, <<"p2", "p1">>}
      [] k = "aspath" -> {<<>>, <<"4 3 1">>}

\* Python's None, and a value
None == [tag |-> "None"]
Val(d) == [tag |-> "val", val |-> d]

\* The content of a cache file: missing; not JSON (or unreadable); JSON with a
\* "ts" and no "data"; an entry as _write_cache dumps it.
Absent == [kind |-> "absent"]
Garbage == [kind |-> "garbage"]
NoData(ts) == [kind |-> "nodata", ts |-> ts]
Entry(ts, d) == [kind |-> "entry", ts |-> ts, data |-> d]

\* The test of line 54 with >= in place of >.
IsExpiredAtTTL(ts, t) == t - ts >= CACHE_TTL

\* line 54: time.time() - entry.get("ts", 0) > CACHE_TTL
IsExpired(ts, t) == t - ts > CACHE_TTL

\* lines 46-59, _read_cache at time t on a file f: the returned value and the
\* file afterwards. json.load raises on garbage and entry["data"] raises on a
\* missing field: both end in `except Exception: return None`, the file kept.
ReadFile(f, t) ==
    CASE f.kind = "absent" -> [result |-> None, file |-> f]
      [] f.kind = "garbage" -> [result |-> None, file |-> f]
      [] f.kind = "nodata" ->
            IF IsExpired(f.ts, t) THEN [result |-> None, file |-> Absent]
            ELSE [result |-> None, file |-> f]
      [] f.kind = "entry" ->
            IF IsExpired(f.ts, t) THEN [result |-> None, file |-> Absent]
            ELSE [result |-> Val(f.data), file |-> f]

\* What the file system does to a write: "ok"; "no_dir": os.makedirs raises
\* (line 63, outside the try); "no_open": open raises (line 66, caught);
\* "no_space": json.dump raises midway (line 67, caught), the file left cut.
FsOutcomes == {"ok", "no_dir", "no_open", "no_space"}

\* line 63: os.makedirs(CACHE_DIR, exist_ok=True) returns when the directory
\* exists, and creates it or raises when it does not.
FsPossible(dir) == IF dir THEN FsOutcomes \ {"no_dir"} ELSE FsOutcomes

\* The directory after a write that met fs ("none": no write).
DirAfter(dir, fs) == dir \/ fs \in FsOutcomes \ {"no_dir"}

\* The entry written without the time of the write.
WriteFileUnstamped(f, d, t, fs) ==
    CASE fs = "ok" -> [raised |-> FALSE, file |-> Entry(0, d)]
      [] fs = "no_dir" -> [raised |-> TRUE, file |-> f]
      [] fs = "no_open" -> [raised |-> FALSE, file |-> f]
      [] fs = "no_space" -> [raised |-> FALSE, file |-> Garbage]

\* lines 61-69, _write_cache of d at time t over a file f: whether it raised,
\* and the file afterwards.
WriteFile(f, d, t, fs) ==
    CASE fs = "ok" -> [raised |-> FALSE, file |-> Entry(t, d)]
      [] fs = "no_dir" -> [raised |-> TRUE, file |-> f]
      [] fs = "no_open" -> [raised |-> FALSE, file |-> f]
      [] fs = "no_space" -> [raised |-> FALSE, file |-> Garbage]

\* The last call, as its caller saw it: the function, its key, the file its
\* _read_cache found, what upstream and the file system did ("none": not
\* asked), how it ended, what it returned, the requests it sent, and the
\* prefix list _fetch_as_path got from _fetch_prefixes_for_asn.
Call(op, k, seen, pfx, up, fs, outcome, result, reqs) ==
    [op |-> op, key |-> k, seen |-> seen, pfx |-> pfx, upstream |-> up, fs |-> fs,
     outcome |-> outcome, result |-> result, requests |-> reqs, prefixes |-> <<>>]

CacheInit ==
    /\ cache = [k \in Keys |-> Absent]
    /\ cache_dir = FALSE
    /\ now = 0
    /\ ticks = 0
    /\ call = Call("none", "none", Absent, "none", "none", "none", "returned", None, <<>>)

Event(name) == Call(name, "none", Absent, "none", "none", "none", "returned", None, <<>>)

\* Time passes: a second, or a second less than the TTL.
Tick ==
    /\ ticks < MaxTicks
    /\ \E d \in {1, CACHE_TTL - 1} : now' = now + d
    /\ ticks' = ticks + 1
    /\ call' = Event("tick")
    /\ UNCHANGED <<cache, cache_dir>>
    /\ UNCHANGED <<pathVars, flowVars, queryVars, parseVars, runVars, raceVars>>

\* Time passes: more than the TTL.
Expire ==
    /\ ticks < MaxTicks
    /\ now' = now + CACHE_TTL + 1
    /\ ticks' = ticks + 1
    /\ call' = Event("tick")
    /\ UNCHANGED <<cache, cache_dir>>
    /\ UNCHANGED <<pathVars, flowVars, queryVars, parseVars, runVars, raceVars>>

\* A cache file is damaged from outside: cut short, or overwritten.
Damage ==
    /\ cache_dir
    /\ \E k \in {"pdb"}, f \in {Garbage, NoData(now)} :
        /\ cache[k] # f
        /\ cache' = [cache EXCEPT ![k] = f]
    /\ call' = Event("damage")
    /\ UNCHANGED <<cache_dir, now, ticks>>
    /\ UNCHANGED <<pathVars, flowVars, queryVars, parseVars, runVars, raceVars>>

\* lines 46-59: _read_cache(key)
ReadCache ==
    /\ \E k \in {"pdb"} :
        LET r == ReadFile(cache[k], now)
        IN  /\ cache' = [cache EXCEPT ![k] = r.file]
            /\ call' = Call("_read_cache", k, cache[k], "none", "none", "none",
                            "returned", r.result, <<>>)
    /\ UNCHANGED <<cache_dir, now, ticks>>
    /\ UNCHANGED <<pathVars, flowVars, queryVars, parseVars, runVars, raceVars>>

\* lines 61-69: _write_cache(key, data)
WriteCache ==
    /\ \E k \in {"pdb"}, d \in DataOf("pdb"), fs \in FsPossible(cache_dir) :
        LET w == WriteFile(cache[k], d, now, fs)
        IN  /\ cache' = [cache EXCEPT ![k] = w.file]
            /\ cache_dir' = DirAfter(cache_dir, fs)
            /\ call' = Call("_write_cache", k, Absent, "none", "none", fs,
                            IF w.raised THEN "raised" ELSE "returned", None, <<>>)
    /\ UNCHANGED <<now, ticks>>
    /\ UNCHANGED <<pathVars, flowVars, queryVars, parseVars, runVars, raceVars>>

\* lines 71-79: clear_file_cache()
ClearFileCache ==
    /\ cache' = [k \in Keys |-> Absent]
    /\ call' = Event("clear_file_cache")
    /\ UNCHANGED <<cache_dir, now, ticks>>
    /\ UNCHANGED <<pathVars, flowVars, queryVars, parseVars, runVars, raceVars>>

\* ------------------------------------------------------------- fetchers
\* What PeeringDB does to a request: no answer in 10 s; no connection; a status
\* raise_for_status refuses; a body that is not JSON; JSON that is no object
\* (a list, a string); an object without "data"; an object with "data".
PdbFailures == {"timeout", "conn_error", "http_error", "bad_json", "not_object"}
PdbOutcomes == PdbFailures \cup {"no_data_field", "ok"}

\* lines 269-278 on a cache miss: the request, response.json().get("data", [])
\* and the write. Whether requests' JSONDecodeError is a RequestException
\* depends on the installed requests (it is from 2.27 on): jsonErrCaught.
\* AttributeError and makedirs' OSError are no RequestException.
PdbMiss(f, up, d, fs, t, jsonErrCaught) ==
    CASE up \in {"timeout", "conn_error", "http_error"} ->
            [outcome |-> "returned", result |-> Val(<<>>), file |-> f, fs |-> "none"]
      [] up = "bad_json" ->
            [outcome |-> IF jsonErrCaught THEN "returned" ELSE "raised",
             result |-> IF jsonErrCaught THEN Val(<<>>) ELSE None,
             file |-> f, fs |-> "none"]
      [] up = "not_object" ->
            [outcome |-> "raised", result |-> None, file |-> f, fs |-> "none"]
      [] up \in {"no_data_field", "ok"} ->
            LET data == IF up = "ok" THEN d ELSE <<>>
                w == WriteFile(f, data, t, fs)
            IN  [outcome |-> IF w.raised THEN "raised" ELSE "returned",
                 result |-> IF w.raised THEN None ELSE Val(data),
                 file |-> w.file, fs |-> fs]

\* lines 260-278: fetch_peeringdb(endpoint)
FetchPeeringdb ==
    /\ LET r == ReadFile(cache["pdb"], now)
       IN  IF r.result # None
           THEN /\ call' = Call("fetch_peeringdb", "pdb", cache["pdb"], "none", "none",
                                "none", "returned", r.result, <<>>)
                /\ cache' = [cache EXCEPT !["pdb"] = r.file]
                /\ UNCHANGED cache_dir
           ELSE \E up \in PdbOutcomes :
                \E d \in IF up = "ok" THEN DataOf("pdb") ELSE {<<>>},
                   fs \in IF up \in PdbFailures THEN {"none"}
                          ELSE FsPossible(cache_dir),
                   jsonErrCaught \in IF up = "bad_json" THEN BOOLEAN ELSE {TRUE} :
                    LET m == PdbMiss(r.file, up, d, fs, now, jsonErrCaught)
                    IN  /\ call' = Call("fetch_peeringdb", "pdb", cache["pdb"], "none",
                                        up, m.fs, m.outcome, m.result, <<"peeringdb">>)
                        /\ cache' = [cache EXCEPT !["pdb"] = m.file]
                        /\ cache_dir' = DirAfter(cache_dir, m.fs)
    /\ UNCHANGED <<now, ticks>>
    /\ UNCHANGED <<pathVars, flowVars, queryVars, parseVars, runVars, raceVars>>

\* What RIPEstat does to a request: an exception (timeout, no connection, a
\* body that is not JSON); a status other than 200 or an empty body; data.
RipeFailures == {"error", "not_200"}
RipeOutcomes == RipeFailures \cup {"ok"}

\* lines 151-164 on a cache miss: every failure leaves prefixes empty, and
\* line 163 writes whatever prefixes holds.
PrefixesMiss(f, up, d, fs, t) ==
    LET prefixes == IF up = "ok" THEN d ELSE <<>>
        w == WriteFile(f, prefixes, t, fs)
    IN  [outcome |-> IF w.raised THEN "raised" ELSE "returned",
         result |-> IF w.raised THEN None ELSE Val(prefixes),
         file |-> w.file]

\* lines 144-164: _fetch_prefixes_for_asn(asn)
FetchPrefixes ==
    /\ LET r == ReadFile(cache["pfx"], now)
       IN  IF r.result # None
           THEN /\ call' = Call("_fetch_prefixes_for_asn", "pfx", cache["pfx"], "none",
                                "none", "none", "returned", r.result, <<>>)
                /\ cache' = [cache EXCEPT !["pfx"] = r.file]
                /\ UNCHANGED cache_dir
           ELSE \E up \in RipeOutcomes, fs \in FsPossible(cache_dir) :
                \E d \in IF up = "ok" THEN DataOf("pfx") ELSE {<<>>} :
                    LET m == PrefixesMiss(r.file, up, d, fs, now)
                    IN  /\ call' = Call("_fetch_prefixes_for_asn", "pfx", cache["pfx"],
                                        "none", up, fs, m.outcome, m.result,
                                        <<"announced-prefixes">>)
                        /\ cache' = [cache EXCEPT !["pfx"] = m.file]
                        /\ cache_dir' = DirAfter(cache_dir, fs)
    /\ UNCHANGED <<now, ticks>>
    /\ UNCHANGED <<pathVars, flowVars, queryVars, parseVars, runVars, raceVars>>

\* The last prefix of the list taken as the sample.
SamplePrefixLast(prefixes) == prefixes[Len(prefixes)]

\* line 113: sample_prefix = prefixes[0]
SamplePrefix(prefixes) == prefixes[1]

\* lines 104-141 on a miss of the "aspath" key, with the prefixes call inlined:
\* pf is what the read of the "pfx" file gave. One file system condition holds
\* for the writes of one call: when the directory cannot be made, the first
\* write raises; once it is there, no later makedirs raises.
AsPathMiss(fa, pf, upp, dp, up, d, fs, t) ==
    LET hit == pf.result # None
        pm == PrefixesMiss(pf.file, upp, dp, fs, t)
        pfile == IF hit THEN pf.file ELSE pm.file
        preq == IF hit THEN <<>> ELSE <<"announced-prefixes">>
        prefixes == IF hit THEN pf.result.val ELSE pm.result.val
    IN  IF ~hit /\ pm.outcome = "raised"
        THEN [outcome |-> "raised", result |-> None, pfx |-> pfile, file |-> fa,
              requests |-> preq, upstream |-> "none", prefixes |-> <<>>]
        ELSE IF prefixes = <<>>
        THEN LET w == WriteFile(fa, <<>>, t, fs)
             IN  [outcome |-> IF w.raised THEN "raised" ELSE "returned",
                  result |-> IF w.raised THEN None ELSE Val(<<>>),
                  pfx |-> pfile, file |-> w.file, requests |-> preq,
                  upstream |-> "none", prefixes |-> prefixes]
        ELSE LET paths == IF up = "ok" THEN d ELSE <<>>
                 w == WriteFile(fa, paths, t, fs)
             IN  [outcome |-> IF w.raised THEN "raised" ELSE "returned",
                  result |-> IF w.raised THEN None ELSE Val(paths),
                  pfx |-> pfile, file |-> w.file,
                  requests |-> preq \o <<"looking-glass " \o SamplePrefix(prefixes)>>,
                  upstream |-> up, prefixes |-> prefixes]

\* lines 88-141: _fetch_as_path(asn)
FetchAsPath ==
    /\ LET r == ReadFile(cache["aspath"], now)
           pf == ReadFile(cache["pfx"], now)
       IN  IF r.result # None
           THEN /\ call' = Call("_fetch_as_path", "aspath", cache["aspath"], "none",
                                "none", "none", "returned", r.result, <<>>)
                /\ cache' = [cache EXCEPT !["aspath"] = r.file]
                /\ UNCHANGED cache_dir
           ELSE \E upp \in IF pf.result # None THEN {"none"} ELSE RipeOutcomes,
                   fs \in FsPossible(cache_dir) :
                \E dp \in IF upp = "ok" THEN DataOf("pfx") ELSE {<<>>} :
                \E up \in IF AsPathMiss(r.file, pf, upp, dp, "ok", <<>>, fs, now).upstream
                              = "none"
                           THEN {"none"} ELSE RipeOutcomes :
                \E d \in IF up = "ok" THEN DataOf("aspath") ELSE {<<>>} :
                    LET m == AsPathMiss(r.file, pf, upp, dp, up, d, fs, now)
                    IN  /\ call' = [Call("_fetch_as_path", "aspath", cache["aspath"],
                                         upp, m.upstream, fs, m.outcome, m.result,
                                         m.requests)
                                    EXCEPT !.prefixes = m.prefixes]
                        /\ cache' = [cache EXCEPT !["aspath"] = m.file, !["pfx"] = m.pfx]
                        /\ cache_dir' = DirAfter(cache_dir, fs)
    /\ UNCHANGED <<now, ticks>>
    /\ UNCHANGED <<pathVars, flowVars, queryVars, parseVars, runVars, raceVars>>

\* ------------------------------------------------- registry queries by id
batch_size == 50
MaxChunks == 3

\* The cities of the footprint, both of one metro in METRO_MAP (lines 23-25),
\* and the locations a request can name: a city, the metro, neither.
Cities == {"Ashburn", "Reston"}
Metro == "Washington DC (IAD)"
Locations == {"Ashburn", Metro, "Nowhere"}
LocationTypes == {"city", "metro", "region"}

\* How many facilities a city can hold, and how many net ids a netfac answer
\* can name: none, one, a full batch, more than a batch, MaxChunks batches.
FacCounts == {0, 1, batch_size + 1}
NetCounts == {0, 1, batch_size, batch_size + 1, (MaxChunks - 1) * batch_size + 1}

\* What fetch_peeringdb gives its caller: records; the empty list of a caught
\* failure; an exception (lines 269-277: what the handler does not catch).
FetchResults == {"ok", "failed", "raised"}

\* A request with an "in" filter: the endpoint and the positions lo..hi of
\* the id list it names.
Request(endpoint, lo, hi) == [endpoint |-> endpoint, lo |-> lo, hi |-> hi]
IdsOf(req) == req.hi - req.lo + 1

\* lines 546, 385: facilities f with f.get("city") == location
CityFacs(location, fac) == IF location \in Cities THEN fac[location] ELSE 0

RECURSIVE SumOver(_, _)
SumOver(S, f) ==
    IF S = {} THEN 0
    ELSE LET c == CHOOSE x \in S : TRUE IN f[c] + SumOver(S \ {c}, f)

\* lines 548-550, 379-381: facilities whose city METRO_MAP maps to location
MetroFacs(location, fac) == IF location = Metro THEN SumOver(Cities, fac) ELSE 0

\* lines 545-550: len(target_fac_ids) in get_routing_flow; `else` takes every
\* location_type but "city".
RoutingTargets(location_type, location, fac) ==
    IF location_type = "city" THEN CityFacs(location, fac)
    ELSE MetroFacs(location, fac)

\* lines 376-385: len(target_fac_ids) in _get_discovery_data; `else` takes
\* every location_type but "metro".
DiscoveryTargets(location_type, location, fac) ==
    IF location_type = "metro" THEN MetroFacs(location, fac)
    ELSE CityFacs(location, fac)

\* `if not target_fac_ids` never taken
NoFacilitiesIgnored(n) == FALSE

\* line 553: if not target_fac_ids
NoFacilities(n) == n = 0

\* lines 563-564, 398-399: the chunk net_ids[i:i + batch_size] of n ids, as
\* the positions it holds (1-based)
Chunk(i, n) ==
    Request("net?id__in", i + 1, IF i + batch_size < n THEN i + batch_size ELSE n)

\* lines 317-319 and 306-315: the cities of the fetched facilities, and the
\* metros METRO_MAP gives them.
CitiesOf(fac) == {c \in Cities : fac[c] > 0}
MetrosOf(fac) == IF CitiesOf(fac) = {} THEN {} ELSE {Metro}

QueryInit ==
    /\ facilities = [c \in Cities |-> 0]
    /\ networks = 0
    /\ unique_cities = {}
    /\ unique_metros = {}
    /\ fac_ids = 0
    /\ qpc = "idle"
    /\ qop = "none"
    /\ qtype = "none"
    /\ qloc = "none"
    /\ targets = 0
    /\ net_ids = 0
    /\ qi = 0
    /\ sent = <<>>
    /\ got = {}
    /\ qret = "none"

\* lines 281-323: initialize_footprint. The registry names nn networks of the
\* local ASNs (none also when the request failed) and fac[c] facilities of
\* theirs in city c; the three requests carry all ASNs, all net ids, all
\* facility ids. The facility records arrive (fetched = fac) or the request
\* for them fails and gives [] (line 304). Without networks only the two
\* lists of names are reset (lines 295-298); without facility ids nothing but
\* the networks is stored (line 303).
InitializeFootprint ==
    /\ qpc \in {"idle", "done"}
    /\ \E nn \in {0, NumLocal}, fac \in [Cities -> FacCounts] :
        LET total == SumOver(Cities, fac)
            r1 == Request("net?asn__in", 1, NumLocal)
            r2 == Request("netfac?net_id__in", 1, nn)
            r3 == Request("fac?id__in", 1, total)
        IN  /\ sent' = IF nn = 0 THEN <<r1>>
                       ELSE IF total = 0 THEN <<r1, r2>> ELSE <<r1, r2, r3>>
            /\ networks' = nn
            /\ fac_ids' = IF nn = 0 THEN 0 ELSE total
            /\ IF nn = 0
               THEN /\ unique_cities' = {}
                    /\ unique_metros' = {}
                    /\ facilities' = facilities
               ELSE IF total = 0
               THEN UNCHANGED <<facilities, unique_cities, unique_metros>>
               ELSE \E fetched \in {fac, [c \in Cities |-> 0]} :
                    /\ facilities' = fetched
                    /\ unique_cities' = CitiesOf(fetched)
                    /\ unique_metros' = MetrosOf(fetched)
    /\ qop' = "initialize_footprint"
    /\ qtype' = "none"
    /\ qloc' = "none"
    /\ targets' = 0
    /\ net_ids' = 0
    /\ qi' = 0
    /\ got' = {}
    /\ qret' = "none"
    /\ qpc' = "done"
    /\ UNCHANGED <<pathVars, flowVars, cacheVars, parseVars, runVars, raceVars>>

\* The netfac request for n facility ids and what follows from its answer.
NetfacStep(n) ==
    \E res \in FetchResults :
    \E nn \in IF res = "ok" THEN NetCounts ELSE {0} :
        /\ sent' = <<Request("netfac?fac_id__in", 1, n)>>
        /\ net_ids' = nn
        /\ qpc' = IF res = "raised" THEN "done" ELSE "chunks"
        /\ qret' = IF res = "raised" THEN "raised" ELSE "none"

\* lines 540-560: get_routing_flow up to the chunk loop
RoutingStart ==
    /\ qpc \in {"idle", "done"}
    /\ \E t \in LocationTypes, loc \in Locations :
        LET n == RoutingTargets(t, loc, facilities)
        IN  /\ qtype' = t
            /\ qloc' = loc
            /\ targets' = n
            /\ IF NoFacilities(n)
               THEN /\ qret' = "No facilities found for location"
                    /\ qpc' = "done"
                    /\ sent' = <<>>
                    /\ net_ids' = 0
               ELSE NetfacStep(n)
    /\ qop' = "get_routing_flow"
    /\ qi' = 0
    /\ got' = {}
    /\ UNCHANGED footprint
    /\ UNCHANGED <<pathVars, flowVars, cacheVars, parseVars, runVars, raceVars>>

\* lines 364-396: _get_discovery_data(None, location, location_type, _) up to
\* the chunk loop; without net ids it returns [] (line 393).
DiscoveryStart ==
    /\ qpc \in {"idle", "done"}
    /\ \E t \in LocationTypes, loc \in Locations :
        LET n == DiscoveryTargets(t, loc, facilities)
        IN  /\ qtype' = t
            /\ qloc' = loc
            /\ targets' = n
            /\ IF n = 0
               THEN /\ qret' = "[]"
                    /\ qpc' = "done"
                    /\ sent' = <<>>
                    /\ net_ids' = 0
               ELSE NetfacStep(n)
    /\ qop' = "_get_discovery_data"
    /\ qi' = 0
    /\ got' = {}
    /\ UNCHANGED footprint
    /\ UNCHANGED <<pathVars, flowVars, cacheVars, parseVars, runVars, raceVars>>

\* lines 563-566, 398-401: one iteration of the chunk loop. A failed request
\* adds nothing to all_nets; `got` holds the chunks whose records arrived.
QueryChunk ==
    /\ qpc = "chunks"
    /\ qi < net_ids
    /\ \E res \in FetchResults :
        /\ sent' = Append(sent, Chunk(qi, net_ids))
        /\ got' = IF res = "ok" THEN got \cup {Chunk(qi, net_ids)} ELSE got
        /\ qpc' = IF res = "raised" THEN "done" ELSE "chunks"
        /\ qret' = IF res = "raised" THEN "raised" ELSE "none"
    /\ qi' = qi + batch_size
    /\ UNCHANGED <<footprint, qop, qtype, qloc, targets, net_ids>>
    /\ UNCHANGED <<pathVars, flowVars, cacheVars, parseVars, runVars, raceVars>>

\* The loop is over: get_routing_flow goes on with all_nets (line 568),
\* _get_discovery_data returns its list (lines 393, 425).
QueryChunksDone ==
    /\ qpc = "chunks"
    /\ qi >= net_ids
    /\ qret' = IF qop = "_get_discovery_data" /\ net_ids = 0 THEN "[]" ELSE "all_nets"
    /\ qpc' = "done"
    /\ UNCHANGED <<footprint, qop, qtype, qloc, targets, net_ids, qi, sent, got>>
    /\ UNCHANGED <<pathVars, flowVars, cacheVars, parseVars, runVars, raceVars>>

\* ------------------------------------------------- looking-glass parse
MaxTokens == 2
MaxPeers == 2

\* The tokens raw.split() gives: decimal numbers (one with a leading zero)
\* and one that int() refuses, such as an AS set "{64512,64513}".
Tokens == {"3", "03", "x"}

\* int(a) on the tokens it accepts
IntOf(a) == CASE a = "3" -> 3 [] a = "03" -> 3

\* whether int(a) raises ValueError
IsInt(a) == a \in {"3", "03"}

\* An as_path string, as the tokens it splits into; <<>> is the empty string
\* and the missing field (line 125: peer.get("as_path", "")).
RawPaths == UNION {[1..n -> Tokens] : n \in 0..MaxTokens}

\* The peers of a looking-glass answer, over all its rrcs, in order.
Answers == UNION {[1..n -> RawPaths] : n \in 0..MaxPeers}

\* The int() of the tokens it accepts, the others left out.
ParseAsPathLenient(raw) ==
    LET ints == SelectSeq(raw, IsInt)
    IN  [ok |-> TRUE, path |-> [i \in 1..Len(ints) |-> IntOf(ints[i])]]

\* lines 128-131: int_path = [int(a) for a in raw.split()], given up as a
\* whole on the first ValueError.
ParseAsPath(raw) ==
    IF \A i \in 1..Len(raw) : IsInt(raw[i])
    THEN [ok |-> TRUE, path |-> [i \in 1..Len(raw) |-> IntOf(raw[i])]]
    ELSE [ok |-> FALSE, path |-> <<>>]

\* lines 123-135: the loops over rrcs and peers from peer i on, `out` being
\* the list paths so far (the set `seen` holds the same paths as tuples).
RECURSIVE ParsePeers(_, _, _)
ParsePeers(peers, i, out) ==
    IF i > Len(peers) THEN out
    ELSE LET raw == peers[i]
             r == ParseAsPath(raw)
         IN  IF raw = <<>> THEN ParsePeers(peers, i + 1, out)
             ELSE IF ~r.ok THEN ParsePeers(peers, i + 1, out)
             ELSE IF \E j \in 1..Len(out) : out[j] = r.path
                  THEN ParsePeers(peers, i + 1, out)
             ELSE ParsePeers(peers, i + 1, Append(out, r.path))

ParseInit ==
    /\ lg_peers = <<>>
    /\ lg_paths = <<>>
    /\ ppc = "answer"

\* lines 119-121: the looking glass answers 200 with a body.
LgAnswer ==
    /\ ppc = "answer"
    /\ \E a \in Answers : lg_peers' = a
    /\ lg_paths' = <<>>
    /\ ppc' = "got"
    /\ UNCHANGED <<pathVars, flowVars, cacheVars, queryVars, runVars, raceVars>>

\* lines 122-135
LgParse ==
    /\ ppc = "got"
    /\ lg_paths' = ParsePeers(lg_peers, 1, <<>>)
    /\ ppc' = "parsed"
    /\ UNCHANGED lg_peers
    /\ UNCHANGED <<pathVars, flowVars, cacheVars, queryVars, runVars, raceVars>>

\* lines 140-141: the call returns paths; the next call starts afresh.
LgReturn ==
    /\ ppc = "parsed"
    /\ lg_peers' = <<>>
    /\ lg_paths' = <<>>
    /\ ppc' = "answer"
    /\ UNCHANGED <<pathVars, flowVars, cacheVars, queryVars, runVars, raceVars>>

\* ------------------------------------------------------- specifications
\* ------------------------------------------- two writers of one cache file
\* The requests that miss the cache for the key and write its file. Each
\* runs in a process of its own (the handlers are coroutines without an
\* await, so one process runs one request at a time).
Writers == {1, 2}
MaxBlocks == 2

\* lines 66-67: the text json.dump gives writer w, n blocks long: the blocks
\* <<w, 1>> .. <<w, n>>. The texts of two writers differ (each has its "ts").
Doc(w, n) == [i \in 1..n |-> <<w, i>>]

\* A block no writer wrote: the gap a write past the end of the file leaves.
Hole == <<0, 0>>

\* A write of the k blocks from position pos on by writer w, at its own
\* offset: what lies beyond stays, a gap before it is filled with zeros.
WriteBlocks(blocks, pos, k, w) ==
    LET last == IF Len(blocks) > pos + k - 1 THEN Len(blocks) ELSE pos + k - 1
    IN  [i \in 1..last |->
            IF i >= pos /\ i <= pos + k - 1 THEN <<w, i>>
            ELSE IF i <= Len(blocks) THEN blocks[i] ELSE Hole]

\* A value json.load can give that no writer wrote.
Mixed == [tag |-> "mixed"]

\* lines 46-59 on the file f, the entry fresh: what _read_cache can return.
\* A missing file, and any text that is not JSON (cut short, with a gap, with
\* the rest of a longer text behind it) give None. The full text of a writer
\* gives its value. Blocks of texts of the same length, each in its place,
\* may or may not be JSON: None, or a value of parts of both.
ReadOutcomes(f, docs) ==
    IF ~f.exists THEN {None}
    ELSE LET full == {w \in Writers : docs[w] > 0 /\ f.blocks = Doc(w, docs[w])}
             inPlace == /\ f.blocks # <<>>
                        /\ \A i \in 1..Len(f.blocks) :
                            /\ f.blocks[i][1] \in Writers
                            /\ f.blocks[i][2] = i
                            /\ docs[f.blocks[i][1]] = Len(f.blocks)
         IN  IF full # {} THEN {Val(w) : w \in full}
             ELSE IF inPlace THEN {None, Mixed}
             ELSE {None}

RaceInit ==
    /\ race_file = [exists |-> FALSE, blocks |-> <<>>]
    /\ wpc = [w \in Writers |-> "idle"]
    /\ wdoc = [w \in Writers |-> 0]
    /\ woff = [w \in Writers |-> 0]
    /\ race_read = [tag |-> "no read"]

\* lines 264-273 (100-140, 146-163): _read_cache gives None, the request
\* fetches, and its text to write is n blocks long.
RaceMiss ==
    /\ \E w \in Writers, n \in 1..MaxBlocks :
        /\ wpc[w] = "idle"
        /\ None \in ReadOutcomes(race_file, wdoc)
        /\ wdoc' = [wdoc EXCEPT ![w] = n]
        /\ wpc' = [wpc EXCEPT ![w] = "fetched"]
    /\ UNCHANGED <<race_file, woff, race_read>>
    /\ UNCHANGED <<pathVars, flowVars, cacheVars, queryVars, parseVars, runVars>>

\* line 66: open(path, "w") creates the file or cuts it to nothing.
RaceOpen ==
    /\ \E w \in Writers :
        /\ wpc[w] = "fetched"
        /\ race_file' = [exists |-> TRUE, blocks |-> <<>>]
        /\ woff' = [woff EXCEPT ![w] = 0]
        /\ wpc' = [wpc EXCEPT ![w] = "open"]
    /\ UNCHANGED <<wdoc, race_read>>
    /\ UNCHANGED <<pathVars, flowVars, cacheVars, queryVars, parseVars, runVars>>

\* line 67 and the end of the with block: the file object writes its buffer,
\* k blocks of the text, at its offset.
RaceFlush ==
    /\ \E w \in Writers :
        /\ wpc[w] = "open"
        /\ \E k \in 1..(wdoc[w] - woff[w]) :
            /\ race_file' = [exists |-> TRUE,
                              blocks |-> WriteBlocks(race_file.blocks, woff[w] + 1, k, w)]
            /\ woff' = [woff EXCEPT ![w] = woff[w] + k]
    /\ UNCHANGED <<wpc, wdoc, race_read>>
    /\ UNCHANGED <<pathVars, flowVars, cacheVars, queryVars, parseVars, runVars>>

\* line 67, the with block left: everything is written, the file is closed.
RaceClose ==
    /\ \E w \in Writers :
        /\ wpc[w] = "open"
        /\ woff[w] = wdoc[w]
        /\ wpc' = [wpc EXCEPT ![w] = "closed"]
    /\ UNCHANGED <<race_file, wdoc, woff, race_read>>
    /\ UNCHANGED <<pathVars, flowVars, cacheVars, queryVars, parseVars, runVars>>

\* lines 46-59: a reader's _read_cache, at any moment.
RaceRead ==
    /\ \E r \in ReadOutcomes(race_file, wdoc) : race_read' = r
    /\ UNCHANGED <<race_file, wpc, wdoc, woff>>
    /\ UNCHANGED <<pathVars, flowVars, cacheVars, queryVars, parseVars, runVars>>

Init == PathInit /\ FlowInit /\ CacheInit /\ QueryInit /\ ParseInit /\ RunInit
        /\ RaceInit

PathsNext == NextPath \/ AnalyzePath \/ EndPath \/ AnalyzeReturn \/ AnalyzeCall
SpecPaths == Init /\ [][PathsNext]_vars

Next ==
    \/ NextPath \/ AnalyzePath \/ EndPath \/ AnalyzeReturn
    \/ RF_Nets \/ RF_FacilityPeer \/ RF_ExternalStart \/ RF_ExternalPeer
    \/ RF_LookupRaises \/ RF_Transit \/ RF_Assemble
Spec == Init /\ [][Next]_vars

VerifyNext ==
    \/ NextPath \/ AnalyzePath \/ EndPath \/ AnalyzeReturn
    \/ RF_NetsIx \/ RF_FacilityPeer \/ RF_ExternalStart \/ RF_ExternalPeer
    \/ RF_LookupRaises \/ RF_Transit \/ RF_Assemble
SpecVerify == Init /\ [][VerifyNext]_vars

RunsNext ==
    \/ RunNextPath \/ RerunNextPath \/ AnalyzePath \/ EndPath \/ RunReturn
    \/ RunNets \/ RF_FacilityPeer \/ RF_ExternalStart \/ RF_ExternalPeer
    \/ RF_LookupRaises \/ RF_Transit \/ RF_Assemble \/ RunAgain
SpecRuns == Init /\ [][RunsNext]_vars

CacheNext == Tick \/ Damage \/ ReadCache \/ WriteCache \/ ClearFileCache
SpecCache == Init /\ [][CacheNext]_vars

FetchNext ==
    \/ Expire \/ ClearFileCache
    \/ FetchPeeringdb \/ FetchPrefixes \/ FetchAsPath
SpecFetch == Init /\ [][FetchNext]_vars

RepeatNext == Tick \/ ClearFileCache \/ FetchPeeringdb \/ FetchAsPath
SpecRepeat == Init /\ [][RepeatNext]_vars

RaceNext == RaceMiss \/ RaceOpen \/ RaceFlush \/ RaceClose \/ RaceRead
SpecRace == Init /\ [][RaceNext]_vars

QueryNext ==
    \/ InitializeFootprint \/ RoutingStart \/ DiscoveryStart
    \/ QueryChunk \/ QueryChunksDone
SpecQuery == Init /\ [][QueryNext]_vars

ParseNext == LgAnswer \/ LgParse \/ LgReturn
SpecParse == Init /\ [][ParseNext]_vars

\* --------------------------------------------- what the observed paths say
\* Indices (after the first element) of a local ASN, and those among them whose
\* predecessor is not local.
LocalIdx(p) == {i \in 2..Len(p) : p[i] \in LocalASNs}
AdjacentIdx(p) == {i \in LocalIdx(p) : p[i - 1] \notin LocalASNs}
Least(S) == CHOOSE i \in S : \A j \in S : i <= j

\* The non-local ASNs strictly before position k of p.
Upstream(p, k) == {a \in NonLocalASNs : \E j \in 1..(k - 1) : p[j] = a}

\* A path's first-hop observation <<peer, ASNs before the peer>> (a set of at
\* most one), read at the first local occurrence ...
ObsFirstLocal(p) ==
    IF LocalIdx(p) = {} \/ p[Least(LocalIdx(p)) - 1] \in LocalASNs THEN {}
    ELSE {<<p[Least(LocalIdx(p)) - 1], Upstream(p, Least(LocalIdx(p)) - 1)>>}

\* ... and read at the first local occurrence whose predecessor is not local.
ObsFirstAdjacent(p) ==
    IF AdjacentIdx(p) = {} THEN {}
    ELSE {<<p[Least(AdjacentIdx(p)) - 1], Upstream(p, Least(AdjacentIdx(p)) - 1)>>}

\* The result dp, pd with the observations obs added: each peer a member and a
\* key, its set grown by the ASNs before it.
WithObs(dp, pd, obs) ==
    <<dp \cup {o[1] : o \in obs},
      [k \in DOMAIN pd \cup {o[1] : o \in obs} |->
          DownOf(pd, k) \cup UNION {o[2] : o \in {o \in obs : o[1] = k}}]>>

\* The element before the first local occurrence (index > 0) is itself local.
FirstCandidateLocal(p) ==
    LocalIdx(p) # {} /\ p[Least(LocalIdx(p)) - 1] \in LocalASNs

\* ------------------------------------------------------------ C4, C5
\* C4 (as stated): every analysed path adds exactly its observation read at the
\* FIRST occurrence (index > 0) of a local ASN: the element before it becomes a
\* direct peer and a key, and the non-local ASNs before that element join the
\* peer's set; a path whose element there is local, or that has no such
\* occurrence, adds nothing. With the empty start of a call this makes the
\* returned sets those the claim gives.
C4_FirstOccurrenceStated ==
    [][apc = "path" =>
        <<direct_peers', peer_downstreams'>> =
            WithObs(direct_peers, peer_downstreams, ObsFirstLocal(path))]_vars

\* C4 (amended): the same with the observation read at the first occurrence
\* (index > 0) of a local ASN whose preceding element is not local. A call
\* starts from empty results, each path adds at most one peer, a path of local
\* ASNs only adds nothing, and a peer is a key even when its set is empty.
C4_PathAnalysis ==
    [][/\ apc = "path" =>
            /\ <<direct_peers', peer_downstreams'>> =
                   WithObs(direct_peers, peer_downstreams, ObsFirstAdjacent(path))
            /\ Cardinality(direct_peers' \ direct_peers) <= 1
            /\ DOMAIN peer_downstreams' = direct_peers'
            /\ direct_peers' \subseteq NonLocalASNs
            /\ (\A i \in 1..Len(path) : path[i] \in LocalASNs) =>
                   UNCHANGED <<direct_peers, peer_downstreams>>
       /\ (apc = "ret" /\ apc' = "scan") =>
            (direct_peers' = {} /\ peer_downstreams' = <<>>)]_vars

\* C4 witness: a call has returned two direct peers, one with an empty
\* downstream set (its key present) and one with a non-empty set.
C4_Witness ==
    /\ apc = "ret"
    /\ \E a, b \in direct_peers :
        /\ a # b
        /\ peer_downstreams[a] = {}
        /\ peer_downstreams[b] # {}

\* C5 (as stated): a path whose element before the first local occurrence
\* (index > 0) is itself local is skipped whole: analysing it changes neither
\* the direct-peer set nor any downstream set.
C5_LocalCandidateSkipsPath ==
    [][(apc = "path" /\ FirstCandidateLocal(path)) =>
        UNCHANGED <<direct_peers, peer_downstreams>>]_vars

\* C5 (amended): for such a path the scan goes on to the later local
\* occurrences; the path adds nothing only when none of them is preceded by a
\* non-local ASN, and otherwise the ASN before the first such occurrence becomes
\* a direct peer.
C5_LocalCandidateContinues ==
    [][(apc = "path" /\ FirstCandidateLocal(path)) =>
        /\ IF AdjacentIdx(path) = {}
           THEN UNCHANGED <<direct_peers, peer_downstreams>>
           ELSE /\ direct_peers' =
                       direct_peers \cup {path[Least(AdjacentIdx(path)) - 1]}
                /\ first_hop' = path[Least(AdjacentIdx(path)) - 1]
                /\ first_hop' \in DOMAIN peer_downstreams']_vars

\* C5 witness: an iteration took the `continue` for a local candidate and then
\* recorded a non-local first hop as a direct peer.
C5_Witness ==
    /\ apc = "scanned"
    /\ FirstCandidateLocal(path)
    /\ first_hop \in NonLocalASNs
    /\ first_hop \in direct_peers

\* ------------------------------------------------------------ C1, C2, C3
\* The ASNs of a list of Direct Peer nodes, node by node: the peer, its
\* Downstream children, its Transit Reachable children.
RECURSIVE NodeListASNs(_)
NodeListASNs(nodes) ==
    IF nodes = <<>> THEN <<>>
    ELSE <<nodes[1].asn>> \o nodes[1].children \o nodes[1].transit_children
         \o NodeListASNs(Tail(nodes))

\* Every node of the returned tree, as the list of their ASNs.
TreeASNs == NodeListASNs(tree.children) \o tree.unresolved

\* The ASNs below the top level: children of either kind, and the Unresolved.
RECURSIVE ChildListASNs(_)
ChildListASNs(nodes) ==
    IF nodes = <<>> THEN <<>>
    ELSE nodes[1].children \o nodes[1].transit_children \o ChildListASNs(Tail(nodes))

LowerASNs == Range(ChildListASNs(tree.children)) \cup Range(tree.unresolved)

\* The co-located network set minus the local ASNs: the ASNs, not local, of the
\* net records the registry returned for the location's facilities.
Colocated == {a \in all_nets : a \in NonLocalASNs}

\* C1: in a returned tree no ASN occupies more than one node, counting the
\* Direct Peer nodes, their Downstream and Transit Reachable children and the
\* Unresolved group together.
C1_OneNodePerASN ==
    rpc = "done" =>
        \A i, j \in 1..Len(TreeASNs) : i # j => TreeASNs[i] # TreeASNs[j]

\* C2: in a returned tree every non-local ASN of a co-located network occupies
\* some node.
C2_NoColocatedMissing ==
    rpc = "done" => \A a \in Colocated : a \in Range(TreeASNs)

\* C2 witness: a tree was returned for net records that include a local ASN's
\* and one without an asn, with a Direct Peer node and a non-empty Unresolved
\* group.
C2_Witness ==
    /\ rpc = "done"
    /\ 0 \in all_nets
    /\ all_nets \cap LocalASNs # {}
    /\ tree.children # <<>>
    /\ tree.unresolved # <<>>

\* C3 (as stated): the ASNs of the nodes of a returned tree are exactly the
\* co-located network set minus the local ASNs.
C3_NodesAreExactlyColocated ==
    rpc = "done" => Range(TreeASNs) = Colocated

\* C3 (amended): the ASNs of the nodes are the co-located set minus the local
\* ASNs together with the direct peers that are not co-located, which are
\* top-level Direct Peer nodes; every node below the top level carries a
\* co-located ASN, and no node carries a local ASN.
C3_NodesAreColocatedOrDirectPeers ==
    rpc = "done" =>
        /\ Range(TreeASNs) = Colocated \cup direct_peers
        /\ LowerASNs \subseteq Colocated
        /\ Range(TreeASNs) \cap LocalASNs = {}
        /\ \A a \in Range(TreeASNs) \ Colocated :
               \E i \in 1..Len(tree.children) : tree.children[i].asn = a

\* C3 witness: a returned tree has a Direct Peer node that is not co-located,
\* with a co-located Downstream child.
C3_Witness ==
    /\ rpc = "done"
    /\ \E i \in 1..Len(tree.children) :
        /\ tree.children[i].asn \notin all_nets
        /\ tree.children[i].children # <<>>

\* ------------------------------------------- what the cache and fetchers do
\* Seconds between the write of the entry the last read found and that read.
Elapsed == now - call.seen.ts

ReadOfEntry == call.op = "_read_cache" /\ call.seen.kind = "entry"

\* C6 as stated: a read of an entry returns the stored value and leaves the
\* entry as it was when less than CACHE_TTL seconds have passed since the
\* write, and returns absent when CACHE_TTL seconds or more have passed,
\* exactly CACHE_TTL included.
C6_AbsentFromTTL ==
    ReadOfEntry =>
        /\ Elapsed < CACHE_TTL =>
            call.result = Val(call.seen.data) /\ cache[call.key] = call.seen
        /\ Elapsed >= CACHE_TTL => call.result = None

\* C6 amended: a read returns the stored value and leaves the entry as it was
\* (so reads before it change nothing) when at most CACHE_TTL seconds have
\* passed since the write, exactly CACHE_TTL included; it returns absent and
\* removes the entry when more than CACHE_TTL seconds have passed.
C6_AbsentAfterTTL ==
    ReadOfEntry =>
        /\ Elapsed <= CACHE_TTL =>
            call.result = Val(call.seen.data) /\ cache[call.key] = call.seen
        /\ Elapsed > CACHE_TTL =>
            call.result = None /\ cache[call.key] = Absent

\* A read exactly CACHE_TTL seconds after the write, the value returned.
C6_Witness ==
    /\ ReadOfEntry
    /\ Elapsed = CACHE_TTL
    /\ call.result = Val(call.seen.data)

FetchOps == {"fetch_peeringdb", "_fetch_prefixes_for_asn", "_fetch_as_path"}

\* C7: after a fetch that asked upstream and came back with nothing (upstream
\* failed or had no data), the cache holds no entry for the key of the fetch.
C7_EmptyResultNotCached ==
    (/\ call.op \in FetchOps
     /\ call.requests # <<>>
     /\ call.result = Val(<<>>)) => cache[call.key].kind # "entry"

\* C8: a fetch whose write met a file system failure (no directory, no open,
\* no space) still returns what it fetched; nothing is raised.
C8_WriteFailureNotRaised ==
    (call.op \in FetchOps /\ call.fs \in FsOutcomes \ {"ok"}) =>
        call.outcome = "returned" /\ call.result # None

\* C9: a read that found a corrupt file (not JSON, or no data field) returns
\* absent, and afterwards the file is gone.
C9_CorruptEntryRemoved ==
    (call.op = "_read_cache" /\ call.seen.kind \in {"garbage", "nodata"}) =>
        call.result = None /\ cache[call.key] = Absent

\* C10: fetch_peeringdb, on a timeout, a connection error, a refused status or
\* a malformed body, returns the empty list without raising, and the cache
\* holds no entry for the query.
C10_UpstreamFailureGivesEmptyList ==
    (call.op = "fetch_peeringdb" /\ call.upstream \in PdbFailures) =>
        /\ call.outcome = "returned"
        /\ call.result = Val(<<>>)
        /\ cache[call.key].kind # "entry"

\* ------------------------------------------------ what the queries by id do
\* The chunk requests sent so far.
ChunkRequests == {i \in DOMAIN sent : sent[i].endpoint = "net?id__in"}

\* C11: every request with an "in" filter carries at most batch_size (50)
\* identifiers; the chunks of a list cover each of its identifiers exactly
\* once; and the records of every chunk whose request succeeded are in the
\* result, whatever happened to the other chunks.
C11_InFiltersChunked ==
    /\ \A i \in DOMAIN sent : IdsOf(sent[i]) <= batch_size
    /\ (qpc = "done" /\ qret = "all_nets") =>
        /\ \A k \in 1..net_ids :
            Cardinality({i \in ChunkRequests : sent[i].lo <= k /\ k <= sent[i].hi}) = 1
        /\ \A i \in ChunkRequests : sent[i].hi <= net_ids
        /\ got \subseteq {sent[i] : i \in ChunkRequests}

\* C16: a routing-flow request that matches no facility returns the "No
\* facilities found for location" error value: nothing is raised, no tree is
\* built, and no request has been sent.
C16_NoFacilitiesError ==
    (qop = "get_routing_flow" /\ qpc = "done" /\ targets = 0) =>
        qret = "No facilities found for location" /\ sent = <<>>

\* The footprint holds facilities, the request names a place without any.
C16_Witness ==
    /\ qop = "get_routing_flow"
    /\ qpc = "done"
    /\ targets = 0
    /\ \E c \in Cities : facilities[c] > 0
    /\ qret = "No facilities found for location"

\* C17: a request whose location_type is neither "city" nor "metro" ends in a
\* validation error, in get_routing_flow and in _get_discovery_data alike.
C17_UnknownTypeRejected ==
    (/\ qop \in {"get_routing_flow", "_get_discovery_data"}
     /\ qtype \notin {"city", "metro"}) => qret = "validation error"

\* ---------------------------------------------- what _fetch_as_path asks
\* The looking-glass requests of the last call.
LookingGlassRequests ==
    {i \in DOMAIN call.requests : call.requests[i] # "announced-prefixes"}

\* The last call was _fetch_as_path and missed its cache: it went on to the
\* prefix list (every such call ends in a write, or raises on the way to it).
AsPathMissed == call.op = "_fetch_as_path" /\ call.fs # "none"

\* The call got its prefix list: from the cache (pfx is "none"), or from a
\* prefixes call that returned (when that call's write raises, so does this
\* call, with no list in hand).
PrefixesObtained == AsPathMissed /\ ~(call.pfx # "none" /\ call.outcome = "raised")

\* C12: a call of _fetch_as_path sends at most one looking-glass request,
\* and that one for the first prefix of the list; with an empty prefix list it
\* sends none and returns the empty sequence.
C12_OneLookingGlassRequest ==
    call.op = "_fetch_as_path" =>
        /\ Cardinality(LookingGlassRequests) <= 1
        /\ \A i \in LookingGlassRequests :
            /\ call.prefixes # <<>>
            /\ call.requests[i] = "looking-glass " \o call.prefixes[1]
        /\ (PrefixesObtained /\ call.prefixes = <<>>) =>
            /\ LookingGlassRequests = {}
            /\ call.outcome = "returned"
            /\ call.result = Val(<<>>)

\* A call that got two prefixes and asked the looking glass for the first.
C12_Witness ==
    /\ call.op = "_fetch_as_path"
    /\ call.prefixes = <<"p2", "p1">>
    /\ call.requests = <<"announced-prefixes", "looking-glass p2">>

\* -------------------------------------------- what the parse keeps
\* The integers of an as_path string all of whose tokens are integers.
IntPath(raw) == [i \in 1..Len(raw) |-> IntOf(raw[i])]
FullyInteger(raw) == raw # <<>> /\ \A i \in 1..Len(raw) : IsInt(raw[i])

\* C13: the parsed list holds no path twice, and its paths are exactly the
\* integer paths of the answer's as_path strings whose tokens are all
\* integers: a string with a non-integer token gives no path, whole or partial,
\* and takes no other record's path away.
C13_ExactlyTheIntegerPaths ==
    ppc = "parsed" =>
        /\ \A i, j \in 1..Len(lg_paths) : lg_paths[i] = lg_paths[j] => i = j
        /\ Range(lg_paths) =
            {IntPath(lg_peers[i]) : i \in {j \in 1..Len(lg_peers) : FullyInteger(lg_peers[j])}}

\* A record with a non-integer token after an integer one, then a record
\* that parses: only the second is kept.
C13_Witness ==
    /\ ppc = "parsed"
    /\ Len(lg_peers) = 2
    /\ lg_peers[1] = <<"3", "x">>
    /\ FullyInteger(lg_peers[2])
    /\ lg_paths = <<IntPath(lg_peers[2])>>

\* ------------------------------------------- what verification decides
\* The Direct Peer nodes of the returned tree.
TopNodes == Range(tree.children)

\* The exchanges a peer shares with the local networks at the location: the
\* peer's memberships as its lookups gave them, among the local networks'
\* memberships, among the exchanges at the location's facilities.
SharedExchanges(p) ==
    IF p \in DOMAIN peer_lookups /\ peer_lookups[p].found
    THEN (peer_lookups[p].ixs \cap zl_ix_ids) \cap local_ix_ids
    ELSE {}

\* The tier of a node: co-located, else sharing an exchange, else external;
\* verified in the first two.
TierAsStated(n) ==
    IF n.asn \in facility_nets
    THEN n.verification = "PeeringDB Facility" /\ n.verified
    ELSE IF SharedExchanges(n.asn) # {}
    THEN n.verification = "Shared IX" /\ n.verified
    ELSE n.verification = "External 1-Hop" /\ ~n.verified /\ n.shared_ix = {}

\* C14 as stated: every Direct Peer node of a returned tree has the tier of
\* its peer, and a shared-exchange node carries exactly the names of the
\* exchanges shared.
C14_TierWithExchangeNames ==
    rpc = "done" =>
        \A n \in TopNodes :
            /\ TierAsStated(n)
            /\ n.verification = "Shared IX" =>
                n.shared_ix = {IxRegistryName(ix) : ix \in SharedExchanges(n.asn)}

\* C14 amended: every Direct Peer node of a returned tree has the tier of its
\* peer, and a shared-exchange node carries one label for each exchange
\* shared: its name when the lookup of the exchanges gave its record, the
\* placeholder IX-<id> when it did not.
C14_TierWithExchangeLabels ==
    rpc = "done" =>
        \A n \in TopNodes :
            /\ TierAsStated(n)
            /\ n.verification = "Shared IX" =>
                n.shared_ix = {IF ix \in DOMAIN ix_names THEN IxRegistryName(ix)
                               ELSE IF ix = 1 THEN "IX-1" ELSE "IX-2" :
                               ix \in SharedExchanges(n.asn)}

\* A returned tree with a co-located peer and a peer sharing an exchange,
\* the exchanges named.
C14_Witness ==
    /\ rpc = "done"
    /\ ix_names # <<>>
    /\ \E n \in TopNodes : n.verification = "Shared IX" /\ n.shared_ix # {}
    /\ \E n \in TopNodes : n.verification = "PeeringDB Facility"

\* C15: every ASN the path analysis returned as a direct peer is a Direct
\* Peer node of the returned tree, whatever its verification gave.
C15_NoDirectPeerRemoved ==
    rpc = "done" => direct_peers \subseteq {n.asn : n \in TopNodes}

\* A returned tree with a peer whose lookup gave nothing and a peer that
\* shares no exchange, both among the Direct Peer nodes.
C15_Witness ==
    /\ rpc = "done"
    /\ \E n \in TopNodes :
        /\ n.asn \in direct_peers
        /\ n.verification = "External 1-Hop"
        /\ ~peer_lookups[n.asn].found
    /\ \E n \in TopNodes :
        /\ n.verification = "External 1-Hop"
        /\ peer_lookups[n.asn].found

\* A sequence of names (sort keys) in ascending order.
Ascending(keys) == \A i, j \in 1..Len(keys) : i < j => keys[i] <= keys[j]

NamesOf(asns) == [i \in 1..Len(asns) |-> net_name[asns[i]]]

\* C18: in every returned tree each sibling group is in the order of the
\* display names: the Direct Peer nodes, every peer's Downstream children,
\* every peer's Transit Reachable children, and the Unresolved group.
C18_SiblingGroupsByName ==
    rpc = "done" =>
        /\ Ascending([i \in 1..Len(tree.children) |-> tree.children[i].name])
        /\ \A n \in TopNodes :
            /\ Ascending(NamesOf(n.children))
            /\ Ascending(NamesOf(n.transit_children))
        /\ Ascending(NamesOf(tree.unresolved))

\* The same for the groups the code sorts by name: all but Unresolved.
C18_PeerGroupsByName ==
    rpc = "done" =>
        /\ Ascending([i \in 1..Len(tree.children) |-> tree.children[i].name])
        /\ \A n \in TopNodes :
            /\ Ascending(NamesOf(n.children))
            /\ Ascending(NamesOf(n.transit_children))

RepeatOps == {"_fetch_as_path", "fetch_peeringdb"}
RepeatKeys == {"aspath", "pdb"}

\* A file that holds an entry whose TTL has not expired at time t.
Live(f, t) == f.kind = "entry" /\ ~IsExpired(f.ts, t)

\* A call that returned with its result in the cache: read from the entry,
\* or written to it.
Stored(c) ==
    /\ c.op \in RepeatOps
    /\ c.outcome = "returned"
    /\ c.requests = <<>> \/ c.fs = "ok"

C23_NothingNested ==
    rpc = "done" =>
        /\ \A n \in TopNodes : n.transit_children = <<>>
        /\ tree.transit_nested_count = 0
        /\ DOMAIN peer_downstreams \subseteq {n.asn : n \in TopNodes}
        /\ \A k \in DOMAIN peer_downstreams :
            peer_downstreams[k] \cap Range(tree.unresolved) = {}

\* A returned tree in which a co-located network of a peer's downstream set
\* is that peer's Downstream child: assigned before the pass.
C23_Witness ==
    /\ rpc = "done"
    /\ \E n \in TopNodes :
        /\ n.children # <<>>
        /\ Range(n.children) \subseteq peer_downstreams[n.asn]

\* ------------------------------------------------------ the stored footprint
\* C21: the stored footprint is that of the last refresh: the facilities are
\* none when it found no networks or no facility ids, unique_cities is the
\* set of the cities of the stored facilities, and unique_metros the set of
\* their metros.
C21_FootprintReplacedWholesale ==
    /\ (networks = 0 \/ fac_ids = 0) => facilities = [c \in Cities |-> 0]
    /\ unique_cities = CitiesOf(facilities)
    /\ unique_metros = MetrosOf(facilities)

\* The same for the refreshes that got facility ids: the three parts are
\* stored together.
C21_ReplacedWhenFacilitiesFound ==
    fac_ids > 0 =>
        /\ unique_cities = CitiesOf(facilities)
        /\ unique_metros = MetrosOf(facilities)

\* ------------------------------------------------- the race for one entry
\* C22: whatever the interleaving of two writers of one key and of readers,
\* a reader gets absent or the value one writer wrote, never a value of parts
\* of both, and once both writers have finished a read returns the value of
\* one of them.
C22_RaceLeavesEntry ==
    /\ race_read # Mixed
    /\ (\A w \in Writers : wpc[w] = "closed") =>
            ReadOutcomes(race_file, wdoc) \subseteq {Val(w) : w \in Writers}
====
